---- MODULE Spec2Model ----
(***************************************************************************)
(* depupdate: the command line tool that probes the lockfiles of the       *)
(* working directory, reads package.json, and drives the package manager   *)
(* (update commands per dependency category, then the audit loop).         *)
(*                                                                         *)
(* One action per handler of the async main function: Main runs from the   *)
(* start to the first await; every other action is the continuation that   *)
(* runs when the awaited exec() callback resolves the promise, up to the   *)
(* next await or the end of the function.                                  *)
(*                                                                         *)
(* A command line is kept as the sequence of the pieces the template       *)
(* string puts one blank apart; format_dep's join(' ') is the sequence of  *)
(* the formatted names.  A stdout is a sequence of one-character strings.  *)
(***************************************************************************)
EXTENDS Integers, Sequences, FiniteSets, TLC

VARIABLES is_yarn, is_npm, latest, setup, config,
          cmd, pc, idx, i, out, cmds, inflight, exitCode, failed

vars == <<is_yarn, is_npm, latest, setup, config,
          cmd, pc, idx, i, out, cmds, inflight, exitCode, failed>>

inputs == <<is_yarn, is_npm, latest, setup, config>>

----------------------------------------------------------------------------
(* Bounds of the model *)

\* longest list of keys of one dependency category of package.json
MaxItems == 2

\* longest stdout of a subprocess, in characters
MaxOutLen == 2

----------------------------------------------------------------------------
(* Inputs *)

\* package names, in the order the manifest lists them
PackageNames == <<"left-pad", "chalk", "mocha", "yargs">>

Min(a, b) == IF a < b THEN a ELSE b

\* One sub-mapping of package.json: absent, or the list of its keys
\* (no key, one key, or the longest list of the model).
Mappings ==
    { [defined |-> FALSE, keys |-> <<>>] } \cup
    { [defined |-> TRUE, keys |-> SubSeq(PackageNames, 1, n)] :
        n \in {0, 1, Min(MaxItems, Len(PackageNames))} }

Manifests ==
    [ dependencies : Mappings, devDependencies : Mappings,
      peerDependencies : Mappings, optionalDependencies : Mappings ]

Digits == {"0", "5"}

DigitValue(c) == IF c = "5" THEN 5 ELSE 0

\* characters of a stdout: two digits and one character that is no digit
Chars == Digits \cup {"v"}

Stdouts == UNION { [1..n -> Chars] : n \in 0..MaxOutLen }

\* what exec() hands to its callback: [stdout, stderr, error]
Results == [ stdout : Stdouts, stderr : {"", "ERR!"}, error : BOOLEAN ]

----------------------------------------------------------------------------
(* Helpers of the program *)

\* a run that rejects its promise when exec reports an error
run_rejects_on_error(result) == result.error

\* run: the promise is resolved with the callback's arguments, never rejected
run_rejects(result) == FALSE

run(result) == result

\* the condition under which runPrintErrors logs the stderr lines
PrintsErrors(result) == result.error \/ result.stderr # ""

runPrintErrors(result) == run(result)

RECURSIVE LeadingDigits(_)
\* the match of /([0-9]*)/ at index 0: the digits stdout starts with
LeadingDigits(s) ==
    IF s = <<>> \/ Head(s) \notin Digits THEN <<>>
    ELSE <<Head(s)>> \o LeadingDigits(Tail(s))

RECURSIVE parseInt(_)
\* decimal value of a non-empty sequence of digits
parseInt(s) ==
    IF Len(s) = 1 THEN DigitValue(s[1])
    ELSE 10 * parseInt(SubSeq(s, 1, Len(s) - 1)) + DigitValue(s[Len(s)])

\* matcher[0] || '0', parsed
VulnerabilityCount(stdout) ==
    LET m == LeadingDigits(stdout)
    IN  parseInt(IF m = <<>> THEN <<"0">> ELSE m)

\* the parsed number compared with the string '0': never equal
check_for_vulnerabilities_always(stdout) == TRUE

check_for_vulnerabilities(stdout) == VulnerabilityCount(stdout) # 0

standardDevDependencies ==
    << "@types/mocha", "@types/node", "@typescript-eslint/eslint-plugin",
       "@typescript-eslint/parser", "eslint", "eslint-config-standard",
       "eslint-plugin-import", "eslint-plugin-n", "eslint-plugin-node",
       "eslint-plugin-promise", "mocha", "ts-node", "typedoc", "typescript" >>

\* deps.join('@latest '): the suffix is missing from the last name
format_dep_joined(deps, lat) ==
    IF lat
    THEN [k \in 1..Len(deps) |->
            IF k < Len(deps) THEN deps[k] \o "@latest" ELSE deps[k]]
    ELSE deps

format_dep(deps, lat) ==
    IF lat THEN [k \in 1..Len(deps) |-> deps[k] \o "@latest"] ELSE deps

\* Object.keys(config.x ?? [])
ObjectKeys(m) == IF m.defined THEN m.keys ELSE <<>>

\* the category table built from the manifest
dependencies ==
    << [ name |-> "dependencies",
         items |-> ObjectKeys(config.dependencies),
         flags |-> [npm |-> "--save"] ],
       [ name |-> "development dependencies",
         items |-> ObjectKeys(config.devDependencies),
         flags |-> [yarn |-> "--dev", npm |-> "--save-dev"] ],
       [ name |-> "peer dependencies",
         items |-> ObjectKeys(config.peerDependencies),
         flags |-> [yarn |-> "--peer"] ],
       [ name |-> "optional dependencies",
         items |-> ObjectKeys(config.optionalDependencies),
         flags |-> [yarn |-> "--optional", npm |-> "--save-optional"] ] >>

\* is_yarn ? category.flags?.yarn || '' : category.flags?.npm || ''
CategoryFlag(category) ==
    LET key == IF is_yarn THEN "yarn" ELSE "npm"
    IN  IF key \in DOMAIN category.flags THEN category.flags[key] ELSE ""

\* category.items.length === 0, off by one
IsEmpty_upto_one(category) == Len(category.items) <= 1

\* category.items.length === 0
IsEmpty(category) == Len(category.items) = 0

\* the yarn verbs with the test on latest inverted
SelectCmd_inverted(npm, yarn, lat) ==
    IF npm THEN "npm install"
    ELSE IF yarn THEN (IF lat THEN "yarn upgrade" ELSE "yarn add")
    ELSE "yarn"

\* the value of cmd after the lockfile branches
SelectCmd(npm, yarn, lat) ==
    IF npm THEN "npm install"
    ELSE IF yarn THEN (IF ~lat THEN "yarn upgrade" ELSE "yarn add")
    ELSE "yarn"

\* the branch on both lockfiles is missing
ExitsEarly_no_conflict == ~is_npm /\ ~is_yarn /\ ~setup

\* the branch on no lockfile is missing
ExitsEarly_no_absence == is_npm /\ is_yarn

\* the lockfile branches that end in process.exit(1)
ExitsEarly == (is_npm /\ is_yarn) \/ (~is_npm /\ ~is_yarn /\ ~setup)

\* the setup install chosen by yarn.lock instead of package-lock.json
SetupCommand_by_yarn ==
    [ kind |-> "setup", category |-> 0,
      line |-> << IF is_yarn THEN "yarn add --dev" ELSE "npm install --save --dev" >>
               \o format_dep(standardDevDependencies, latest) ]

SetupCommand ==
    [ kind |-> "setup", category |-> 0,
      line |-> << IF is_npm THEN "npm install --save --dev" ELSE "yarn add --dev" >>
               \o format_dep(standardDevDependencies, latest) ]

command_line(c, k) ==
    [ kind |-> "update", category |-> k,
      line |-> << c, CategoryFlag(dependencies[k]) >>
               \o format_dep(dependencies[k].items, latest) ]

AuditCommand ==
    [ kind |-> "audit", category |-> 0,
      line |-> << IF is_npm THEN "npm audit" ELSE "yarn audit" >> ]

FixCommand ==
    [ kind |-> "fix", category |-> 0,
      line |-> << IF is_npm THEN "npm audit fix"
                  ELSE "node_modules/.bin/yarn-audit-fix" >> ]

\* run(...) without await: main goes on while the subprocess still runs
AfterAwait_not_awaited(n) == n

\* await run(...): main goes on when the callback of exec has resolved the
\* promise, the awaited subprocess, one of the n in flight, having exited
AfterAwait(n) == n - 1

\* the audit loop with one more attempt
AuditLoopCond_three(n) == n < 3

\* for (let i = 0; i < 2; ++i)
AuditLoopCond(n) == n < 2

----------------------------------------------------------------------------
(* The state machine *)

\* the state when main starts, the manifest drawn from the set manifests
InitWith(manifests) ==
    /\ is_yarn \in BOOLEAN
    /\ is_npm \in BOOLEAN
    /\ latest \in BOOLEAN
    /\ setup \in BOOLEAN
    /\ config \in manifests
    /\ cmd = "yarn"
    /\ pc = "start"
    /\ idx = 0
    /\ i = 0
    /\ out = <<>>
    /\ cmds = <<>>
    /\ inflight = 0
    /\ exitCode = -1
    /\ failed = FALSE

Init == InitWith(Manifests)

\* exec(c, callback): one more subprocess, n others still running
Exec(c, n) ==
    /\ cmds' = Append(cmds, c)
    /\ inflight' = n + 1

\* the async function returns: the process ends with code 0
Return(n) ==
    /\ pc' = "done"
    /\ exitCode' = 0
    /\ inflight' = n
    /\ UNCHANGED cmds

\* a rejected await: the async function stops with an unhandled rejection
Reject(n) ==
    /\ pc' = "rejected"
    /\ exitCode' = 1
    /\ inflight' = n
    /\ UNCHANGED <<cmds, idx, i>>

\* the audit loop from its condition, with counter a
AuditLoop(a, n) ==
    /\ i' = a
    /\ IF AuditLoopCond(a)
       THEN /\ Exec(AuditCommand, n)
            /\ pc' = "await_audit"
            /\ exitCode' = exitCode
       ELSE Return(n)

\* the category loop from category k on, with command prefix c
UpdateLoop(c, k, n) ==
    LET rest == { j \in k..Len(dependencies) : ~IsEmpty(dependencies[j]) }
    IN  IF rest # {}
        THEN LET j == CHOOSE m \in rest : \A o \in rest : m <= o
             IN  /\ Exec(command_line(c, j), n)
                 /\ idx' = j
                 /\ pc' = "await_update"
                 /\ UNCHANGED <<i, exitCode>>
        ELSE /\ idx' = Len(dependencies) + 1
             /\ AuditLoop(0, n)

\* main, from the probes to the first await or to process.exit(1)
Main ==
    /\ pc = "start"
    /\ UNCHANGED <<inputs, out, failed>>
    /\ IF ExitsEarly
       THEN /\ pc' = "exited"
            /\ exitCode' = 1
            /\ UNCHANGED <<cmd, idx, i, cmds, inflight>>
       ELSE /\ cmd' = SelectCmd(is_npm, is_yarn, latest)
            /\ IF setup
               THEN /\ Exec(SetupCommand, inflight)
                    /\ pc' = "await_setup"
                    /\ UNCHANGED <<idx, i, exitCode>>
               ELSE UpdateLoop(cmd', 1, inflight)

\* the setup install has completed
SetupResumed(result) ==
    /\ pc = "await_setup"
    /\ UNCHANGED <<inputs, cmd, out>>
    /\ failed' = (failed \/ PrintsErrors(result))
    /\ IF run_rejects(result)
       THEN Reject(AfterAwait(inflight))
       ELSE /\ Return(AfterAwait(inflight))
            /\ UNCHANGED <<idx, i>>

\* the update command of category idx has completed
UpdateResumed(result) ==
    /\ pc = "await_update"
    /\ UNCHANGED <<inputs, cmd, out>>
    /\ failed' = (failed \/ PrintsErrors(result))
    /\ IF run_rejects(result)
       THEN Reject(AfterAwait(inflight))
       ELSE UpdateLoop(cmd, idx + 1, AfterAwait(inflight))

\* the audit has completed: decide on the fix
AuditResumed(result) ==
    /\ pc = "await_audit"
    /\ UNCHANGED <<inputs, cmd>>
    /\ failed' = (failed \/ PrintsErrors(result))
    /\ IF run_rejects(result)
       THEN Reject(AfterAwait(inflight)) /\ out' = out
       ELSE /\ out' = runPrintErrors(result).stdout
            /\ UNCHANGED <<idx, i>>
            /\ IF check_for_vulnerabilities(out')
               THEN /\ Exec(FixCommand, AfterAwait(inflight))
                    /\ pc' = "await_fix"
                    /\ exitCode' = exitCode
               ELSE Return(AfterAwait(inflight))

\* the audit fix has completed: next iteration of the audit loop
FixResumed(result) ==
    /\ pc = "await_fix"
    /\ UNCHANGED <<inputs, cmd, idx>>
    /\ failed' = (failed \/ PrintsErrors(result))
    /\ IF run_rejects(result)
       THEN Reject(AfterAwait(inflight)) /\ out' = out
       ELSE /\ out' = <<>>
            /\ AuditLoop(i + 1, AfterAwait(inflight))

Next ==
    \/ Main
    \/ \E result \in Results : SetupResumed(result)
    \/ \E result \in Results : UpdateResumed(result)
    \/ \E result \in Results : AuditResumed(result)
    \/ \E result \in Results : FixResumed(result)

Spec == Init /\ [][Next]_vars

\* The audit loop does not read the keys of the manifest: the runs checked
\* for termination draw each category as absent or as a single key.
LiveManifests ==
    LET M == { m \in Mappings : m.defined = (m.keys # <<>>) /\ Len(m.keys) <= 1 }
    IN  [ dependencies : M, devDependencies : M,
          peerDependencies : M, optionalDependencies : M ]

LiveInit == InitWith(LiveManifests)

\* Every subprocess that was started exits, exec() then calls back, and the
\* event loop runs the continuation of the await.
LiveSpec == LiveInit /\ [][Next]_vars /\ WF_vars(Next)

----------------------------------------------------------------------------
(* Vocabulary of the properties *)

Terminal == {"done", "exited", "rejected"}

KindCount(kind) == Cardinality({ j \in 1..Len(cmds) : cmds[j].kind = kind })

LastKind == IF cmds = <<>> THEN "none" ELSE cmds[Len(cmds)].kind

\* the keys the manifest lists for category k (1 runtime, 2 development,
\* 3 peer, 4 optional), read from the manifest itself
ManifestKeys(k) ==
    LET m == CASE k = 1 -> config.dependencies
               [] k = 2 -> config.devDependencies
               [] k = 3 -> config.peerDependencies
               [] k = 4 -> config.optionalDependencies
    IN  IF m.defined THEN m.keys ELSE <<>>

\* the non-empty categories, in the order runtime, development, peer, optional
NonEmptyCategories ==
    LET nonempty(k) == ManifestKeys(k) # <<>>
    IN  SelectSeq(<<1, 2, 3, 4>>, nonempty)

UpdateMode == ~setup /\ (is_npm # is_yarn)

----------------------------------------------------------------------------
(* C1 *)

\* C1: whenever both yarn.lock and package-lock.json exist, no subprocess is
\* ever invoked and, once main has run, the process has exited with code 1,
\* whatever setup, latest and the manifest are.
C1_BothLockfilesExit1 ==
    (is_yarn /\ is_npm) =>
        /\ cmds = <<>>
        /\ inflight = 0
        /\ pc \in {"start", "exited"}
        /\ pc = "exited" => exitCode = 1
        /\ pc = "start" => exitCode = -1

\* both lockfiles, setup and latest given, a manifest with dependencies: exited
C1_Witness ==
    /\ is_yarn /\ is_npm /\ setup /\ latest
    /\ ManifestKeys(1) # <<>>
    /\ pc = "exited"
    /\ exitCode = 1

----------------------------------------------------------------------------
(* C2 *)

\* C2: whenever neither lockfile exists and setup is not given, no subprocess
\* is ever invoked and, once main has run, the process has exited with code 1,
\* whatever latest and the manifest are.
C2_NoLockfileNoSetupExit1 ==
    (~is_yarn /\ ~is_npm /\ ~setup) =>
        /\ cmds = <<>>
        /\ inflight = 0
        /\ pc \in {"start", "exited"}
        /\ pc = "exited" => exitCode = 1
        /\ pc = "start" => exitCode = -1

\* no lockfile, no setup, latest given, a manifest with dependencies: exited
C2_Witness ==
    /\ ~is_yarn /\ ~is_npm /\ ~setup /\ latest
    /\ ManifestKeys(2) # <<>>
    /\ pc = "exited"
    /\ exitCode = 1

----------------------------------------------------------------------------
(* C3 *)

\* the state part of C3: at most 2 audits in one run, and a completed first
\* audit whose stdout holds no nonzero count has ended the run
AuditsBounded ==
    /\ KindCount("audit") <= 2
    /\ i <= 2
    /\ (KindCount("audit") = 1 /\ pc # "await_audit"
            /\ \A k \in 1..Len(out) : out[k] \notin Digits \ {"0"})
        => pc = "done"

\* C3: in update mode the audit loop terminates and runs the audit at most 2
\* times whatever the audits report: no third audit after a second one that
\* reports a nonzero count, no second audit after a first one that reports
\* zero, nothing after the run has ended, and every audit phase reaches the
\* end of the run.
C3_AuditLoopTerminates ==
    /\ []AuditsBounded
    /\ [][pc \notin Terminal]_vars
    /\ (pc \in {"await_audit", "await_fix"}) ~> (pc = "done")

\* two audits that both reported a nonzero count, and the run has ended
C3_Witness ==
    /\ pc = "done"
    /\ KindCount("audit") = 2
    /\ KindCount("fix") = 2
    /\ i = 2

----------------------------------------------------------------------------
(* C4 *)

RECURSIVE FirstDigitRun(_)
\* the first run of digits occurring anywhere in s
FirstDigitRun(s) ==
    IF s = <<>> THEN <<>>
    ELSE IF Head(s) \in Digits THEN LeadingDigits(s)
    ELSE FirstDigitRun(Tail(s))

RECURSIVE DecimalValue(_)
DecimalValue(s) ==
    IF s = <<>> THEN 0
    ELSE 10 * DecimalValue(SubSeq(s, 1, Len(s) - 1)) + DigitValue(s[Len(s)])

\* C4: the vulnerability count of an audit is the value of the first run of
\* digits occurring in its stdout (zero when there is no digit), and the fix
\* is run after an audit exactly when that count is nonzero.
C4_FirstDigitRunDecidesFix ==
    /\ pc = "await_fix" =>
          /\ VulnerabilityCount(out) = DecimalValue(FirstDigitRun(out))
          /\ DecimalValue(FirstDigitRun(out)) # 0
    /\ (pc = "done" /\ LastKind = "audit") =>
          /\ VulnerabilityCount(out) = DecimalValue(FirstDigitRun(out))
          /\ DecimalValue(FirstDigitRun(out)) = 0

----------------------------------------------------------------------------
(* C5 *)

UpdateCommands ==
    LET isUpdate(c) == c.kind = "update" IN SelectSeq(cmds, isUpdate)

\* C5: in update mode the update commands are exactly one per non-empty
\* category and none for an empty one, in the order runtime, development,
\* peer, optional: the ones issued so far are the first of that list, all of
\* them are issued before the first audit, and each lists the keys of its own
\* category.
C5_OneUpdatePerNonEmptyCategory ==
    LET U == UpdateCommands
        E == NonEmptyCategories
    IN  /\ setup => U = <<>>
        /\ Len(U) <= Len(E)
        /\ \A k \in 1..Len(U) :
              /\ U[k].category = E[k]
              /\ cmds[k] = U[k]
              /\ Len(U[k].line) = 2 + Len(ManifestKeys(E[k]))
        /\ (UpdateMode /\ pc = "await_update") => idx = E[Len(U)]
        /\ (UpdateMode /\ pc \in {"await_audit", "await_fix", "done"}) =>
              Len(U) = Len(E)

\* a manifest with peerDependencies only: one update command, for the peer
\* category, and the run is in its audit phase
C5_Witness ==
    /\ UpdateMode
    /\ NonEmptyCategories = <<3>>
    /\ pc = "await_audit"
    /\ Len(UpdateCommands) = 1
    /\ UpdateCommands[1].category = 3

----------------------------------------------------------------------------
(* C6 *)

\* the package names of an install command and the list they come from
InstallNames(c) ==
    IF c.kind = "setup" THEN SubSeq(c.line, 2, Len(c.line))
    ELSE SubSeq(c.line, 3, Len(c.line))

InstallSource(c) ==
    IF c.kind = "setup" THEN standardDevDependencies
    ELSE ManifestKeys(c.category)

\* C6: in the setup command and in every update command, with latest every
\* package name carries the @latest suffix, without it every name is as in
\* its source list, and the names are in the order of the source list.
C6_LatestSuffixOnEveryName ==
    \A j \in 1..Len(cmds) :
        cmds[j].kind \in {"setup", "update"} =>
            LET names == InstallNames(cmds[j])
                source == InstallSource(cmds[j])
            IN  /\ Len(names) = Len(source)
                /\ \A k \in 1..Len(names) :
                      names[k] = IF latest THEN source[k] \o "@latest"
                                 ELSE source[k]

\* latest given, and an update command for a category of two packages
C6_Witness ==
    /\ latest
    /\ \E j \in 1..Len(cmds) :
          /\ cmds[j].kind = "update"
          /\ Len(InstallNames(cmds[j])) >= 2
          /\ InstallNames(cmds[j])[2] = "chalk@latest"

----------------------------------------------------------------------------
(* C7 *)

\* C7: in setup mode without both lockfiles the run invokes exactly one
\* subprocess, the install of the standard tooling list as development
\* dependencies, through npm when package-lock.json exists and through yarn
\* otherwise; no update, audit or fix command, whatever the manifest holds.
C7_SetupRunsOneInstall ==
    (setup /\ ~(is_npm /\ is_yarn) /\ pc # "start") =>
        /\ pc \in {"await_setup", "done"}
        /\ Len(cmds) = 1
        /\ cmds[1].kind = "setup"
        /\ cmds[1].line[1] =
              IF is_npm THEN "npm install --save --dev" ELSE "yarn add --dev"
        /\ Len(cmds[1].line) = 1 + Len(standardDevDependencies)
        /\ \A k \in 1..Len(standardDevDependencies) :
              cmds[1].line[k + 1] \in
                 { standardDevDependencies[k],
                   standardDevDependencies[k] \o "@latest" }
        /\ pc = "done" => (exitCode = 0 /\ inflight = 0)

\* setup without any lockfile, every category of the manifest non-empty: the
\* run has ended after the one install through yarn
C7_Witness ==
    /\ setup /\ ~is_npm /\ ~is_yarn
    /\ NonEmptyCategories = <<1, 2, 3, 4>>
    /\ pc = "done"
    /\ Len(cmds) = 1
    /\ cmds[1].line[1] = "yarn add --dev"

----------------------------------------------------------------------------
(* C8 *)

\* the number of audits among the first j commands
AuditsUpTo(j) == Cardinality({ k \in 1..j : cmds[k].kind = "audit" })

\* C8 as stated: a fix is run only after an audit numbered below 2, so no
\* fix follows the second audit, a run issues at most one fix, and the last
\* audit-phase command of a run that has ended is an audit.
C8_NoFixAfterSecondAudit ==
    /\ \A j \in 1..Len(cmds) : cmds[j].kind = "fix" => AuditsUpTo(j) < 2
    /\ KindCount("fix") <= 1
    /\ (pc = "done" /\ KindCount("audit") > 0) => LastKind = "audit"

\* C8 amended: a fix is run after an audit, the second one included, exactly
\* when the count parsed from that audit is nonzero; every fix directly
\* follows its audit, a run issues at most two fixes, and the last
\* audit-phase command of a run that has ended is an audit whose parsed count
\* is zero or else the fix that follows the second audit.
C8_FixFollowsEachNonzeroAudit ==
    /\ \A j \in 1..Len(cmds) : cmds[j].kind = "fix" =>
          /\ j > 1
          /\ cmds[j - 1].kind = "audit"
          /\ AuditsUpTo(j) \in {1, 2}
    /\ KindCount("fix") <= KindCount("audit")
    /\ KindCount("audit") <= 2
    /\ pc = "await_fix" => (LastKind = "fix" /\ VulnerabilityCount(out) # 0)
    /\ (pc = "done" /\ LastKind = "audit") => VulnerabilityCount(out) = 0
    /\ (pc = "done" /\ LastKind = "fix") =>
          (KindCount("audit") = 2 /\ KindCount("fix") = 2)
    /\ (pc = "done" /\ UpdateMode) => LastKind \in {"audit", "fix"}

\* the fix that follows the second audit is in flight
C8_Witness ==
    /\ pc = "await_fix"
    /\ KindCount("audit") = 2
    /\ KindCount("fix") = 2
    /\ inflight = 1

----------------------------------------------------------------------------
(* C9 *)

\* the kinds of the commands from position j on
KindsFrom(j) == [k \in 1..(Len(cmds) - j + 1) |-> cmds[j + k - 1].kind]

\* C9: in update mode no failure of a subprocess stops or shortens the run:
\* the run is never ended by a rejection, every non-empty category's update
\* is issued in order, the first audit follows them, and the commands issued
\* are those fixed by the inputs and by the stdout of the audits, whether or
\* not some command has failed.
C9_FailuresNeverShortenRun ==
    UpdateMode =>
        LET E == NonEmptyCategories
            n == Len(E)
        IN  /\ pc # "rejected"
            /\ exitCode \in {-1, 0}
            /\ exitCode = 0 <=> pc = "done"
            /\ pc = "await_update" =>
                  /\ Len(cmds) \in 1..n
                  /\ \A k \in 1..Len(cmds) :
                        cmds[k].kind = "update" /\ cmds[k].category = E[k]
            /\ pc \in {"await_audit", "await_fix", "done"} =>
                  /\ Len(cmds) > n
                  /\ \A k \in 1..n :
                        cmds[k].kind = "update" /\ cmds[k].category = E[k]
                  /\ KindsFrom(n + 1) \in
                        { <<"audit">>, <<"audit", "fix">>,
                          <<"audit", "fix", "audit">>,
                          <<"audit", "fix", "audit", "fix">> }
            /\ pc = "await_audit" => LastKind = "audit"
            /\ pc = "await_fix" => (LastKind = "fix" /\ check_for_vulnerabilities(out))
            /\ pc = "done" =>
                  IF LastKind = "audit" THEN ~check_for_vulnerabilities(out)
                  ELSE Len(cmds) = n + 4

\* the first of two update commands has failed and the second one is issued
C9_Witness ==
    /\ UpdateMode
    /\ failed
    /\ pc = "await_update"
    /\ Len(cmds) = 2
    /\ Len(NonEmptyCategories) >= 2

----------------------------------------------------------------------------
(* C10 *)

InstallVerbs == {"npm install", "yarn add"}

UpgradeVerbs == {"npm update", "npm upgrade", "yarn upgrade"}

\* C10 as stated: for each of the two managers the base verb of every update
\* command is an install verb when latest is given and an upgrade verb when
\* it is not.
C10_VerbByLatestForBothManagers ==
    \A j \in 1..Len(cmds) :
        cmds[j].kind = "update" =>
            IF latest THEN cmds[j].line[1] \in InstallVerbs
            ELSE cmds[j].line[1] \in UpgradeVerbs

\* C10 amended: the base verb of every update command is, for yarn, yarn add
\* when latest is given and yarn upgrade when it is not, and for npm it is
\* npm install whether or not latest is given.
C10_VerbByManagerAndLatest ==
    \A j \in 1..Len(cmds) :
        cmds[j].kind = "update" =>
            cmds[j].line[1] =
                IF is_npm THEN "npm install"
                ELSE IF latest THEN "yarn add" ELSE "yarn upgrade"

\* npm without latest: an update command with the verb npm install
C10_Witness ==
    /\ is_npm /\ ~is_yarn /\ ~latest /\ ~setup
    /\ cmds # <<>>
    /\ cmds[1].kind = "update"
    /\ cmds[1].line[1] = "npm install"

----------------------------------------------------------------------------
(* C11 *)

AwaitStates == {"await_setup", "await_update", "await_audit", "await_fix"}

\* the state part of C11: at most one subprocess is in flight, it is the
\* command issued last, main is then suspended on it, and none is left when
\* the run has ended
OneInFlight ==
    /\ inflight \in {0, 1}
    /\ inflight = 1 <=> pc \in AwaitStates
    /\ inflight = 1 => cmds # <<>>
    /\ pc = "await_update" => LastKind = "update"
    /\ pc = "await_audit" => LastKind = "audit"
    /\ pc = "await_fix" => LastKind = "fix"

\* the step part of C11: a step issues at most one command, and when it does
\* every command issued before has completed (the new one alone is in
\* flight); a command follows another only in a step that starts suspended
\* on that other one
IssuedAfterCompletion ==
    Len(cmds') > Len(cmds) =>
        /\ Len(cmds') = Len(cmds) + 1
        /\ SubSeq(cmds', 1, Len(cmds)) = cmds
        /\ inflight' = 1
        /\ cmds # <<>> => (inflight = 1 /\ pc \in AwaitStates)

\* C11: at every point of a run at most one subprocess is in flight: each
\* update, audit and fix command is issued only after the command issued
\* before it has completed, so the updates have all completed when the first
\* audit starts and a fix has completed when the next audit starts.
C11_OneSubprocessAtATime ==
    /\ []OneInFlight
    /\ [][IssuedAfterCompletion]_vars

\* the second audit is in flight, alone, after two updates, an audit and a fix
C11_Witness ==
    /\ pc = "await_audit"
    /\ i = 1
    /\ inflight = 1
    /\ Len(cmds) = 5
    /\ KindCount("update") = 2
    /\ cmds[4].kind = "fix"

====
